---- MODULE Spec2Model ----
\* A model of tensorflow/core/example/feature_util.h: the accessor layer over
\* Feature / Features / Example / SequenceExample protos.
\*
\* A Feature is a oneof of three repeated lists with a discriminant (kind_case).
\* The three lists are kept as separate fields so that oneof exclusivity is a
\* property of the operations, not of the representation.
EXTENDS Integers, Sequences, FiniteSets, TLC

VARIABLES example, se, last

vars == <<example, se, last>>

\* ------------------------------------------------------------------ bounds

\* The longest repeated field a write may produce.
MaxLen == 3

\* The most Feature elements a FeatureList may hold.
MaxFeatures == 2

\* The longest repeated field a write to an element of a FeatureList may
\* produce.
MaxElementLen == 2

\* ------------------------------------------------------------- data model

KIND_NOT_SET == "KIND_NOT_SET"

Kinds == {"int64", "float", "bytes"}

\* A freshly constructed Feature: no kind selected, nothing stored.
NewFeature ==
    [kind |-> KIND_NOT_SET, int64_list |-> <<>>, float_list |-> <<>>, bytes_list |-> <<>>]

\* A freshly constructed Features message: an empty map.
NewFeatures == [feature |-> <<>>]

\* The keys of the map of a Features message.
Keys(fs) == DOMAIN fs.feature

\* The repeated field of one kind inside a Feature.
Storage(kind, f) ==
    CASE kind = "int64" -> f.int64_list
      [] kind = "float" -> f.float_list
      [] kind = "bytes" -> f.bytes_list

\* The Feature with the repeated field of one kind replaced.
WithStorage(kind, f, vals) ==
    CASE kind = "int64" -> [f EXCEPT !.int64_list = vals]
      [] kind = "float" -> [f EXCEPT !.float_list = vals]
      [] kind = "bytes" -> [f EXCEPT !.bytes_list = vals]

\* --------------------------------------------------- type trait resolver

\* FeatureTrait<ValueType>::Type: integral -> int64, floating -> float,
\* string-like -> bytes.
FeatureTrait(type) ==
    CASE type \in {"int", "int64_t"} -> "int64"
      [] type \in {"double", "float"} -> "float"
      [] type \in {"string_view", "string"} -> "bytes"

\* double -> float narrowing (round to nearest, ties to even) on integer-valued
\* doubles of magnitude below 2^25: below 2^24 every integer is a float, from
\* 2^24 on only the even ones are.
NarrowToFloat(d) ==
    LET a == IF d < 0 THEN 0 - d ELSE d
        r == IF a < 2^24 \/ a % 2 = 0 THEN a
             ELSE IF (a - 1) % 4 = 0 THEN a - 1 ELSE a + 1
    IN  IF d < 0 THEN 0 - r ELSE r

\* The elementwise conversion `*values->Add() = elt` performs from the source's
\* value type to the storage type of its kind.
ConvertElement(type, v) ==
    CASE type = "double" -> NarrowToFloat(v)
      [] type = "float" -> v
      [] type \in {"int", "int64_t"} -> v
      [] type \in {"string_view", "string"} -> v

ConvertAll(src) ==
    [i \in 1..Len(src.elems) |-> ConvertElement(src.type, src.elems[i])]

\* ---------------------------------------------------------- map accessors

\* GetFeatures(proto): the Features message of an Example, or the Features
\* message itself.
GetFeatures(proto) ==
    IF "features" \in DOMAIN proto THEN proto.features ELSE proto

\* The proto with its Features message replaced (what writing through the
\* pointer GetFeatures(ProtoType*) returns does to the proto).
PutFeatures(proto, fs) ==
    IF "features" \in DOMAIN proto THEN [proto EXCEPT !.features = fs] ELSE fs

\* The keys of the feature map of a proto.
KeysOf(proto) == Keys(GetFeatures(proto))

\* The Feature stored under a key that is present.
FeatureAt(key, proto) == GetFeatures(proto).feature[key]

\* protobuf Map::operator[] as used by the mutable accessors: the map with a
\* default-constructed Feature inserted under the key unless the key is there.
MutableMapEntry(key, fs) ==
    IF key \in Keys(fs) THEN fs
    ELSE [fs EXCEPT !.feature = fs.feature @@ (key :> NewFeature)]

\* GetFeature(key, const ProtoType&) looking the key up with operator[], which
\* inserts, instead of at().
GetFeatureConstInserting(key, proto) ==
    LET fs == MutableMapEntry(key, GetFeatures(proto))
    IN  [proto |-> PutFeatures(proto, fs), status |-> "ok",
         feature |-> fs.feature[key]]

\* GetFeature(key, const ProtoType&): Map::at, which fails on an absent key.
\* The result, and the proto after the call.
GetFeatureConst(key, proto) ==
    IF key \in Keys(GetFeatures(proto))
    THEN [proto |-> proto, status |-> "ok",
          feature |-> GetFeatures(proto).feature[key]]
    ELSE [proto |-> proto, status |-> "LookupError", feature |-> NewFeature]

\* GetFeature(key, ProtoType*): the proto after the call; the returned
\* Feature* points at the entry under the key.
GetFeatureMutable(key, proto) ==
    PutFeatures(proto, MutableMapEntry(key, GetFeatures(proto)))

\* The proto after a write through the Feature* of a key that is present.
WriteFeature(key, proto, f) ==
    PutFeatures(proto, [GetFeatures(proto) EXCEPT !.feature[key] = f])

\* ------------------------------------------------------- typed value view

\* GetFeatureValues<FeatureType>(Feature*): the Feature after the call. The
\* oneof accessor selects the kind; a Feature of another (or no) kind is
\* replaced by an empty payload of the requested kind.
GetFeatureValuesMutable(kind, f) ==
    IF f.kind = kind THEN f ELSE [NewFeature EXCEPT !.kind = kind]

\* GetFeatureValues<FeatureType>(const Feature&): a typed view of the storage;
\* asking for a kind other than the one the Feature holds is a
\* ForeignKindAccess, and the Feature is not touched.
GetFeatureValuesConst(kind, f) ==
    IF f.kind \in {kind, KIND_NOT_SET}
    THEN [status |-> "ok", values |-> Storage(kind, f)]
    ELSE [status |-> "ForeignKindAccess", values |-> <<>>]

\* GetFeatureValues<FeatureType>(key, const ProtoType&) going through the
\* mutable typed view of the Feature, which selects the kind.
GetFeatureValuesKeyConstSwitching(kind, key, proto) ==
    IF key \in Keys(GetFeatures(proto))
    THEN [proto |-> WriteFeature(key, proto,
                        GetFeatureValuesMutable(kind, FeatureAt(key, proto))),
          result |-> GetFeatureValuesConst(kind, FeatureAt(key, proto))]
    ELSE [proto |-> proto,
          result |-> [status |-> "LookupError", values |-> <<>>]]

\* GetFeatureValues<FeatureType>(key, const ProtoType&): the result and the
\* proto after the call.
GetFeatureValuesKeyConst(kind, key, proto) ==
    IF key \in Keys(GetFeatures(proto))
    THEN [proto |-> proto,
          result |-> GetFeatureValuesConst(kind, GetFeatures(proto).feature[key])]
    ELSE [proto |-> proto,
          result |-> [status |-> "LookupError", values |-> <<>>]]

\* GetFeatureValues<FeatureType>(key, ProtoType*): the proto after the call.
GetFeatureValuesKeyMutable(kind, key, proto) ==
    LET p1 == PutFeatures(proto, MutableMapEntry(key, GetFeatures(proto)))
    IN  WriteFeature(key, p1, GetFeatureValuesMutable(kind, FeatureAt(key, p1)))

\* ------------------------------------------------------------ bulk copier

\* AppendFeatureValues writing into the repeated field of the source's kind
\* without going through the mutable typed view: the kind is never selected.
AppendFeatureValuesNoSwitch(src, f) ==
    LET kind == FeatureTrait(src.type)
    IN  WithStorage(kind, f, Storage(kind, f) \o ConvertAll(src))

\* AppendFeatureValues overwriting the repeated field instead of adding to it.
AppendFeatureValuesReplacing(src, f) ==
    LET kind == FeatureTrait(src.type)
        g == GetFeatureValuesMutable(kind, f)
    IN  WithStorage(kind, g, ConvertAll(src))

\* AppendFeatureValues copying the source back to front.
AppendFeatureValuesReversed(src, f) ==
    LET kind == FeatureTrait(src.type)
        g == GetFeatureValuesMutable(kind, f)
        n == Len(src.elems)
    IN  WithStorage(kind, g, Storage(kind, g) \o
            [i \in 1..n |-> ConvertElement(src.type, src.elems[n + 1 - i])])

\* AppendFeatureValues(source, Feature*): the Feature after the call. The
\* iterator-range, initializer_list and container forms store the same values
\* (they differ in the capacity they reserve).
AppendFeatureValues(src, f) ==
    LET kind == FeatureTrait(src.type)
        g == GetFeatureValuesMutable(kind, f)
    IN  WithStorage(kind, g, Storage(kind, g) \o ConvertAll(src))

\* ClearFeatureValues<FeatureType> clearing through the mutable typed view,
\* which selects the kind.
ClearFeatureValuesSwitching(kind, f) ==
    WithStorage(kind, GetFeatureValuesMutable(kind, f), <<>>)

\* ClearFeatureValues<FeatureType>(Feature*): empties the repeated field of
\* the given type and nothing else.
ClearFeatureValues(kind, f) == WithStorage(kind, f, <<>>)

\* SetFeatureValues without the ClearFeatureValues call.
SetFeatureValuesNoClear(src, f) == AppendFeatureValues(src, f)

\* SetFeatureValues assigning the repeated field of the source's kind
\* directly, without selecting the kind.
SetFeatureValuesDirect(src, f) ==
    WithStorage(FeatureTrait(src.type), f, ConvertAll(src))

\* SetFeatureValues(source, Feature*).
SetFeatureValues(src, f) ==
    AppendFeatureValues(src, ClearFeatureValues(FeatureTrait(src.type), f))

\* AppendFeatureValues(source, key, proto).
AppendFeatureValuesKey(src, key, proto) ==
    LET p1 == GetFeatureMutable(key, GetFeatures(proto))
        p2 == WriteFeature(key, p1, AppendFeatureValues(src, FeatureAt(key, p1)))
    IN  PutFeatures(proto, p2)

\* SetFeatureValues(source, key, proto) clearing the whole Features message
\* before the write instead of the one repeated field.
SetFeatureValuesKeyClearingAll(src, key, proto) ==
    LET p1 == GetFeatureMutable(key, NewFeatures)
        p2 == WriteFeature(key, p1, SetFeatureValues(src, FeatureAt(key, p1)))
    IN  PutFeatures(proto, p2)

\* SetFeatureValues(source, key, proto).
SetFeatureValuesKey(src, key, proto) ==
    LET p1 == GetFeatureMutable(key, GetFeatures(proto))
        p2 == WriteFeature(key, p1, SetFeatureValues(src, FeatureAt(key, p1)))
    IN  PutFeatures(proto, p2)

\* ---------------------------------------------------- existence predicates

\* HasFeature<>(key, const Features&).
HasFeatureFeatures(key, fs) == key \in Keys(fs)

\* HasFeature<FeatureType>(key, const Features&).
HasFeatureKindFeatures(kind, key, fs) ==
    key \in Keys(fs) /\ fs.feature[key].kind = kind

\* HasFeature<>(key, const Example&).
HasFeature(key, proto) == HasFeatureFeatures(key, GetFeatures(proto))

\* HasFeature<FeatureType>(key, const Example&) forwarding without the
\* FeatureType.
HasFeatureKindIgnoringKind(kind, key, proto) ==
    HasFeatureFeatures(key, GetFeatures(proto))

\* HasFeature<FeatureType>(key, const Example&).
HasFeatureKind(kind, key, proto) ==
    HasFeatureKindFeatures(kind, key, GetFeatures(proto))

\* ------------------------------------------------------------ feature lists

\* GetFeatureList(key, const SequenceExample&).
GetFeatureListConst(key, s) ==
    IF key \in DOMAIN s.feature_lists
    THEN [proto |-> s, status |-> "ok", features |-> s.feature_lists[key]]
    ELSE [proto |-> s, status |-> "LookupError", features |-> <<>>]

\* GetFeatureList(key, SequenceExample*): the SequenceExample after the call.
GetFeatureListMutable(key, s) ==
    IF key \in DOMAIN s.feature_lists THEN s
    ELSE [s EXCEPT !.feature_lists = s.feature_lists @@ (key :> <<>>)]

\* HasFeatureList(key, sequence_example).
HasFeatureList(key, s) == key \in DOMAIN s.feature_lists

\* RepeatedPtrField<Feature>::Add(): a new empty Feature after the others.
AddFeature(features) == Append(features, NewFeature)

\* ------------------------------------------------------------------ inputs

FeatureKeys == {"tag", "id"}

ContextKeys == {"tag"}

FeatureListKeys == {"images"}

NoSource == [type |-> "none", elems |-> <<>>]

\* The sources the calls on the Example draw from: integral, floating-point
\* and string-like containers, the empty one of each included. 16777217.0 is
\* a double that is no float.
ExampleSources ==
    {[type |-> "int", elems |-> e] : e \in {<<>>, <<1, 2, 3>>}}
    \cup {[type |-> "double", elems |-> e] : e \in {<<>>, <<5, 3>>, <<16777217>>}}
    \cup {[type |-> "string_view", elems |-> e] : e \in {<<"lorem ipsum">>}}

\* The sources the calls on the context of the SequenceExample draw from.
ContextSources == {[type |-> "int", elems |-> <<42>>]}

\* The sources the writes to an existing element of a FeatureList draw from.
ElementSources == {[type |-> "double", elems |-> e] : e \in {<<4>>, <<5, 3>>}}

\* The sources a new element of a FeatureList is filled from.
AddSources == ElementSources \cup {[type |-> "int", elems |-> <<42>>]}

\* The kinds the typed calls on the elements of a FeatureList ask for.
ElementKinds == {"float", "int64"}

\* ------------------------------------------------------------------- state

\* example: an Example, [features |-> Features]. se: a SequenceExample,
\* [context |-> Features, feature_lists |-> key -> sequence of Feature] (the
\* FeatureLists and FeatureList wrapper messages are folded into the map).
\* last: the last call made, its arguments, the target as it was before the
\* call (pre: the Feature and the keys of its map, pre_list: the FeatureList),
\* and what the call returned.
NoPre == [present |-> FALSE, feature |-> NewFeature, keys |-> {}]

Call(op, target, key, idx, kind, src, pre, pre_list, status, values, found) ==
    [op |-> op, target |-> target, key |-> key, idx |-> idx, kind |-> kind,
     src |-> src, pre |-> pre, pre_list |-> pre_list, status |-> status,
     values |-> values, found |-> found]

Init ==
    /\ example = [features |-> NewFeatures]
    /\ se = [context |-> NewFeatures, feature_lists |-> <<>>]
    /\ last = Call("none", "none", "", 0, "none", NoSource, NoPre, <<>>, "ok",
                   <<>>, FALSE)

\* The proto a call names: the Example, or the context of the SequenceExample.
Proto(target) == IF target = "Example" THEN example ELSE se.context

\* The state after a call has left the named proto as `proto`.
Store(target, proto) ==
    IF target = "Example"
    THEN example' = proto /\ se' = se
    ELSE se' = [se EXCEPT !.context = proto] /\ example' = example

\* The Feature under a key before a call, and whether there was one.
PreOf(key, proto) ==
    IF key \in KeysOf(proto)
    THEN [present |-> TRUE, feature |-> FeatureAt(key, proto),
          keys |-> KeysOf(proto)]
    ELSE [present |-> FALSE, feature |-> NewFeature, keys |-> KeysOf(proto)]

\* No repeated field of the Feature is longer than the bound.
FitsIn(f, max) ==
    /\ Len(f.int64_list) <= max
    /\ Len(f.float_list) <= max
    /\ Len(f.bytes_list) <= max

Fits(f) == FitsIn(f, MaxLen)

FitsElement(f) == FitsIn(f, MaxElementLen)

\* ----------------------------------------------- calls on a Features map

CallGetFeatureConst(target, key) ==
    LET r == GetFeatureConst(key, Proto(target))
    IN  /\ Store(target, r.proto)
        /\ last' = Call("GetFeatureConst", target, key, 0, "none", NoSource,
                        PreOf(key, Proto(target)), <<>>, r.status, <<>>, FALSE)

CallGetFeatureMutable(target, key) ==
    /\ Store(target, GetFeatureMutable(key, Proto(target)))
    /\ last' = Call("GetFeatureMutable", target, key, 0, "none", NoSource,
                    PreOf(key, Proto(target)), <<>>, "ok", <<>>, FALSE)

CallGetFeatureValuesConst(target, kind, key) ==
    LET r == GetFeatureValuesKeyConst(kind, key, Proto(target))
    IN  /\ Store(target, r.proto)
        /\ last' = Call("GetFeatureValuesConst", target, key, 0, kind, NoSource,
                        PreOf(key, Proto(target)), <<>>, r.result.status,
                        r.result.values, FALSE)

CallGetFeatureValuesMutable(target, kind, key) ==
    /\ Store(target, GetFeatureValuesKeyMutable(kind, key, Proto(target)))
    /\ last' = Call("GetFeatureValuesMutable", target, key, 0, kind, NoSource,
                    PreOf(key, Proto(target)), <<>>, "ok", <<>>, FALSE)

CallAppendFeatureValues(target, src, key) ==
    LET p == AppendFeatureValuesKey(src, key, Proto(target))
    IN  /\ Fits(FeatureAt(key, p))
        /\ Store(target, p)
        /\ last' = Call("AppendFeatureValues", target, key, 0,
                        FeatureTrait(src.type), src, PreOf(key, Proto(target)),
                        <<>>, "ok", <<>>, FALSE)

\* SetFeatureValues(source, key, proto) returning before the key lookup when
\* the source is empty.
CallSetFeatureValuesSkipEmpty(target, src, key) ==
    LET p == IF src.elems = <<>> THEN Proto(target)
             ELSE SetFeatureValuesKey(src, key, Proto(target))
    IN  /\ src.elems # <<>> => Fits(FeatureAt(key, p))
        /\ Store(target, p)
        /\ last' = Call("SetFeatureValues", target, key, 0,
                        FeatureTrait(src.type), src, PreOf(key, Proto(target)),
                        <<>>, "ok", <<>>, FALSE)

CallSetFeatureValues(target, src, key) ==
    LET p == SetFeatureValuesKey(src, key, Proto(target))
    IN  /\ Fits(FeatureAt(key, p))
        /\ Store(target, p)
        /\ last' = Call("SetFeatureValues", target, key, 0,
                        FeatureTrait(src.type), src, PreOf(key, Proto(target)),
                        <<>>, "ok", <<>>, FALSE)

\* ClearFeatureValues<kind>(GetFeature(key, &proto)) on a key that is present.
CallClearFeatureValues(target, kind, key) ==
    /\ key \in KeysOf(Proto(target))
    /\ Store(target, WriteFeature(key, Proto(target),
                ClearFeatureValues(kind, FeatureAt(key, Proto(target)))))
    /\ last' = Call("ClearFeatureValues", target, key, 0, kind, NoSource,
                    PreOf(key, Proto(target)), <<>>, "ok", <<>>, FALSE)

CallHasFeature(target, key) ==
    /\ UNCHANGED <<example, se>>
    /\ last' = Call("HasFeature", target, key, 0, "none", NoSource,
                    PreOf(key, Proto(target)), <<>>, "ok", <<>>,
                    HasFeature(key, Proto(target)))

\* HasFeature<FeatureType>(key, proto) answered by looking at the mutable
\* typed view, which inserts the key and selects the kind.
CallHasFeatureKindSwitching(target, kind, key) ==
    /\ Store(target, GetFeatureValuesKeyMutable(kind, key, Proto(target)))
    /\ last' = Call("HasFeatureKind", target, key, 0, kind, NoSource,
                    PreOf(key, Proto(target)), <<>>, "ok", <<>>,
                    HasFeatureKind(kind, key, Proto(target)))

CallHasFeatureKind(target, kind, key) ==
    /\ UNCHANGED <<example, se>>
    /\ last' = Call("HasFeatureKind", target, key, 0, kind, NoSource,
                    PreOf(key, Proto(target)), <<>>, "ok", <<>>,
                    HasFeatureKind(kind, key, Proto(target)))

\* --------------------------------------------------- calls on a FeatureList

\* The FeatureList under a key before a call (empty when there is none).
PreList(key) ==
    IF key \in DOMAIN se.feature_lists THEN se.feature_lists[key] ELSE <<>>

\* The Feature at a position of a FeatureList before a call.
PreElement(key, idx) ==
    [present |-> TRUE, feature |-> se.feature_lists[key][idx],
     keys |-> DOMAIN se.feature_lists]

\* The keys of the feature lists before a call.
PreLists == [present |-> FALSE, feature |-> NewFeature,
             keys |-> DOMAIN se.feature_lists]

\* The positions of the FeatureList under a key.
Positions(key) ==
    IF key \in DOMAIN se.feature_lists
    THEN 1..Len(se.feature_lists[key]) ELSE {}

CallGetFeatureListConst(key) ==
    LET r == GetFeatureListConst(key, se)
    IN  /\ se' = r.proto
        /\ example' = example
        /\ last' = Call("GetFeatureListConst", "feature_lists", key, 0, "none",
                        NoSource, PreLists, PreList(key), r.status, <<>>,
                        HasFeatureList(key, se))

CallGetFeatureListMutable(key) ==
    /\ se' = GetFeatureListMutable(key, se)
    /\ example' = example
    /\ last' = Call("GetFeatureListMutable", "feature_lists", key, 0, "none",
                    NoSource, PreLists, PreList(key), "ok", <<>>,
                    HasFeatureList(key, se))

CallHasFeatureList(key) ==
    /\ UNCHANGED <<example, se>>
    /\ last' = Call("HasFeatureList", "feature_lists", key, 0, "none", NoSource,
                    PreLists, PreList(key), "ok", <<>>, HasFeatureList(key, se))

\* AppendFeatureValues(src, GetFeatureList(key, &se)->Add()).
CallAddFeatureValues(src, key) ==
    LET s1 == GetFeatureListMutable(key, se)
        added == AddFeature(s1.feature_lists[key])
        idx == Len(added)
        f == AppendFeatureValues(src, added[idx])
    IN  /\ idx <= MaxFeatures
        /\ FitsElement(f)
        /\ se' = [s1 EXCEPT !.feature_lists[key] = [added EXCEPT ![idx] = f]]
        /\ example' = example
        /\ last' = Call("AddFeatureValues", "feature_lists", key, idx,
                        FeatureTrait(src.type), src, PreLists, PreList(key), "ok",
                        <<>>, HasFeatureList(key, se))

\* AppendFeatureValues(src, GetFeatureList(key, &se)->Mutable(idx - 1)).
CallAppendElementValues(src, key, idx) ==
    LET f == AppendFeatureValues(src, se.feature_lists[key][idx])
    IN  /\ FitsElement(f)
        /\ se' = [se EXCEPT !.feature_lists[key][idx] = f]
        /\ example' = example
        /\ last' = Call("AppendElementValues", "feature_lists", key, idx,
                        FeatureTrait(src.type), src, PreElement(key, idx),
                        PreList(key), "ok", <<>>, TRUE)

\* SetFeatureValues(src, GetFeatureList(key, &se)->Mutable(idx - 1)).
CallSetElementValues(src, key, idx) ==
    LET f == SetFeatureValues(src, se.feature_lists[key][idx])
    IN  /\ FitsElement(f)
        /\ se' = [se EXCEPT !.feature_lists[key][idx] = f]
        /\ example' = example
        /\ last' = Call("SetElementValues", "feature_lists", key, idx,
                        FeatureTrait(src.type), src, PreElement(key, idx),
                        PreList(key), "ok", <<>>, TRUE)

\* ClearFeatureValues<kind>(GetFeatureList(key, &se)->Mutable(idx - 1)).
CallClearElementValues(kind, key, idx) ==
    /\ se' = [se EXCEPT !.feature_lists[key][idx] = ClearFeatureValues(kind, @)]
    /\ example' = example
    /\ last' = Call("ClearElementValues", "feature_lists", key, idx, kind,
                    NoSource, PreElement(key, idx), PreList(key), "ok", <<>>,
                    TRUE)

\* GetFeatureValues<kind>(GetFeatureList(key, se).Get(idx - 1)).
CallGetElementValuesConst(kind, key, idx) ==
    LET r == GetFeatureValuesConst(kind, se.feature_lists[key][idx])
    IN  /\ UNCHANGED <<example, se>>
        /\ last' = Call("GetElementValuesConst", "feature_lists", key, idx,
                        kind, NoSource, PreElement(key, idx), PreList(key),
                        r.status, r.values, TRUE)

\* GetFeatureValues<kind>(GetFeatureList(key, &se)->Mutable(idx - 1)).
CallGetElementValuesMutable(kind, key, idx) ==
    /\ se' = [se EXCEPT !.feature_lists[key][idx] =
                            GetFeatureValuesMutable(kind, @)]
    /\ example' = example
    /\ last' = Call("GetElementValuesMutable", "feature_lists", key, idx, kind,
                    NoSource, PreElement(key, idx), PreList(key), "ok", <<>>,
                    TRUE)

\* ------------------------------------------------------- specification

Next ==
    \E key \in FeatureKeys :
        \/ CallGetFeatureConst("Example", key)
        \/ CallGetFeatureMutable("Example", key)
        \/ CallHasFeature("Example", key)
        \/ \E kind \in Kinds :
            \/ CallGetFeatureValuesConst("Example", kind, key)
            \/ CallGetFeatureValuesMutable("Example", kind, key)
            \/ CallClearFeatureValues("Example", kind, key)
            \/ CallHasFeatureKind("Example", kind, key)
        \/ \E src \in ExampleSources :
            \/ CallAppendFeatureValues("Example", src, key)
            \/ CallSetFeatureValues("Example", src, key)

Spec == Init /\ [][Next]_vars

\* The calls on a SequenceExample: on its context and on its feature lists.
NextSeq ==
    \/ \E key \in ContextKeys :
        \/ CallGetFeatureConst("context", key)
        \/ CallGetFeatureMutable("context", key)
        \/ CallHasFeature("context", key)
        \/ \E kind \in ElementKinds : CallHasFeatureKind("context", kind, key)
        \/ \E src \in ContextSources : CallSetFeatureValues("context", src, key)
    \/ \E key \in FeatureListKeys :
        \/ CallGetFeatureListConst(key)
        \/ CallGetFeatureListMutable(key)
        \/ CallHasFeatureList(key)
        \/ \E src \in AddSources : CallAddFeatureValues(src, key)
        \/ \E idx \in Positions(key) :
            \/ \E src \in ElementSources :
                \/ CallAppendElementValues(src, key, idx)
                \/ CallSetElementValues(src, key, idx)
            \/ \E kind \in ElementKinds :
                \/ CallClearElementValues(kind, key, idx)
                \/ CallGetElementValuesConst(kind, key, idx)
                \/ CallGetElementValuesMutable(kind, key, idx)

SpecSeq == Init /\ [][NextSeq]_vars

\* The keys, sources and kinds of the calls on a SequenceExample with two
\* context features and two feature lists.
IsoContextKeys == {"tag", "id"}

IsoFeatureListKeys == {"images", "labels"}

IsoContextSources == {[type |-> "int", elems |-> <<42>>]}

IsoAddSources == {[type |-> "double", elems |-> e] : e \in {<<4>>, <<5, 3>>}}

IsoKinds == {"float"}

\* The mutable calls on a SequenceExample: on the features of its context and
\* on its feature lists, each under either of two keys.
NextIso ==
    \/ \E key \in IsoContextKeys :
        \/ CallGetFeatureMutable("context", key)
        \/ \E kind \in IsoKinds : CallGetFeatureValuesMutable("context", kind, key)
        \/ \E src \in IsoContextSources :
            \/ CallAppendFeatureValues("context", src, key)
            \/ CallSetFeatureValues("context", src, key)
    \/ \E key \in IsoFeatureListKeys :
        \/ CallGetFeatureListMutable(key)
        \/ \E src \in IsoAddSources : CallAddFeatureValues(src, key)

SpecIso == Init /\ [][NextIso]_vars

\* ------------------------------------------------------------------ claims

\* What GetFeatureValues<kind>(key, proto) reads from the target of the last
\* call, as the target is now.
ReadBack == GetFeatureValuesKeyConst(last.kind, last.key, Proto(last.target)).result

\* The Feature under the key of the last call, as it is now.
Target == FeatureAt(last.key, Proto(last.target))

\* C1 as stated: after SetFeatureValues(source, key, proto), whatever the
\* Feature held before, GetFeatureValues of the source's kind reads exactly the
\* source's values v1..vn, in order.
C1_SetReadsSourceValues ==
    last.op = "SetFeatureValues" =>
        ReadBack = [status |-> "ok", values |-> last.src.elems]

\* C1, amended: after SetFeatureValues(source, key, proto), whatever the
\* Feature held before, GetFeatureValues of the source's kind reads exactly the
\* source's values each converted to the storage type of the kind, in order,
\* with nothing left over from before the call; a value the storage type
\* represents is read back as it was given.
C1_SetRoundTrip ==
    last.op = "SetFeatureValues" =>
        /\ ReadBack.status = "ok"
        /\ Len(ReadBack.values) = Len(last.src.elems)
        /\ \A i \in 1..Len(last.src.elems) :
              ReadBack.values[i] = ConvertElement(last.src.type, last.src.elems[i])
        /\ \A i \in 1..Len(last.src.elems) :
              ConvertElement(last.src.type, last.src.elems[i]) = last.src.elems[i]
                  => ReadBack.values[i] = last.src.elems[i]

\* A SetFeatureValues of a non-empty source on a Feature that already held
\* values of the same kind.
C1_Witness ==
    /\ last.op = "SetFeatureValues"
    /\ last.pre.present
    /\ last.pre.feature.kind = last.kind
    /\ Storage(last.kind, last.pre.feature) # <<>>
    /\ last.src.elems # <<>>
    /\ Storage(last.kind, last.pre.feature) # ReadBack.values

\* C2: a write of kind B (mutable GetFeatureValues, AppendFeatureValues or
\* SetFeatureValues) on a Feature holding another kind A raises no error,
\* makes B the Feature's kind, leaves nothing stored under A, and
\* GetFeatureValues<B> then reads exactly the values the write stored.
C2_WriteSwitchesKind ==
    ( /\ last.op \in {"GetFeatureValuesMutable", "AppendFeatureValues",
                      "SetFeatureValues"}
      /\ last.pre.present
      /\ last.pre.feature.kind \in Kinds \ {last.kind} )
    => /\ last.status = "ok"
       /\ Target.kind = last.kind
       /\ \A a \in Kinds \ {last.kind} : Storage(a, Target) = <<>>
       /\ GetFeatureValuesKeyConst(last.pre.feature.kind, last.key,
                                   Proto(last.target)).result.status # "ok"
       /\ ReadBack = [status |-> "ok", values |-> ConvertAll(last.src)]

\* A SetFeatureValues of floating-point values on a Feature that held int64
\* values.
C2_Witness ==
    /\ last.op = "SetFeatureValues"
    /\ last.pre.present
    /\ last.pre.feature.kind = "int64"
    /\ last.pre.feature.int64_list # <<>>
    /\ last.kind = "float"
    /\ last.src.elems # <<>>

\* C3: the read-only GetFeature fails with LookupError on an absent key and
\* creates nothing, the mutable GetFeature never fails and leaves an (empty,
\* when new) Feature under the key, and on a present key both return the
\* Feature that was there; likewise the read-only and the mutable
\* GetFeatureList on the feature lists of a SequenceExample.
C3_LookupAsymmetry ==
    /\ last.op = "GetFeatureConst" =>
          /\ last.status = (IF last.pre.present THEN "ok" ELSE "LookupError")
          /\ KeysOf(Proto(last.target)) = last.pre.keys
          /\ last.pre.present => Target = last.pre.feature
    /\ last.op = "GetFeatureMutable" =>
          /\ last.status = "ok"
          /\ KeysOf(Proto(last.target)) = last.pre.keys \cup {last.key}
          /\ Target = last.pre.feature
    /\ last.op = "GetFeatureListConst" =>
          /\ last.status = (IF last.key \in last.pre.keys THEN "ok"
                            ELSE "LookupError")
          /\ DOMAIN se.feature_lists = last.pre.keys
          /\ last.key \in last.pre.keys
                => se.feature_lists[last.key] = last.pre_list
    /\ last.op = "GetFeatureListMutable" =>
          /\ last.status = "ok"
          /\ DOMAIN se.feature_lists = last.pre.keys \cup {last.key}
          /\ se.feature_lists[last.key] = last.pre_list

\* A read-only GetFeature that failed on an absent key of the context of a
\* SequenceExample whose mutable GetFeatureList has created a feature list.
C3_Witness ==
    /\ last.op = "GetFeatureConst"
    /\ last.status = "LookupError"
    /\ ~ last.pre.present
    /\ KeysOf(Proto(last.target)) = {}
    /\ HasFeatureList("images", se)
    /\ se.feature_lists["images"] = <<>>

\* The calls that reach a Feature through a mutable key lookup.
MutableKeyCalls ==
    {"GetFeatureMutable", "GetFeatureValuesMutable", "AppendFeatureValues",
     "SetFeatureValues"}

\* C4: right after a mutable accessor is called with a key (mutable
\* GetFeature, mutable key-based GetFeatureValues, key-based
\* AppendFeatureValues or SetFeatureValues, an empty source included)
\* HasFeature(key) is true, and once true it stays true over every later call.
C4_VivifiedKeyStays ==
    /\ [](last.op \in MutableKeyCalls => HasFeature(last.key, Proto(last.target)))
    /\ [][\A key \in FeatureKeys :
            HasFeature(key, example) => HasFeature(key, example')]_vars

\* A key that did not exist, touched by a SetFeatureValues of an empty source.
C4_Witness ==
    /\ last.op = "SetFeatureValues"
    /\ last.src.elems = <<>>
    /\ ~ last.pre.present
    /\ HasFeature(last.key, Proto(last.target))
    /\ Storage(last.kind, Target) = <<>>

\* C5: HasFeature<K>(key) is true exactly when the key is in the feature map
\* and the Feature's kind is K (false on an absent key, false on another
\* kind); HasFeature(key) is true exactly when the key is in the map.
C5_TypedExistence ==
    /\ last.op = "HasFeatureKind" =>
          last.found = ( /\ last.key \in KeysOf(Proto(last.target))
                         /\ Target.kind = last.kind )
    /\ last.op = "HasFeature" =>
          last.found = (last.key \in KeysOf(Proto(last.target)))

\* HasFeature<K> answered false on a key whose Feature holds values of
\* another kind.
C5_Witness ==
    /\ last.op = "HasFeatureKind"
    /\ last.key \in KeysOf(Proto(last.target))
    /\ Target.kind \in Kinds \ {last.kind}
    /\ Storage(Target.kind, Target) # <<>>
    /\ ~ last.found

\* The source holding the elements of one source followed by those of another
\* of the same type.
Concat(a, b) == [type |-> a.type, elems |-> a.elems \o b.elems]

\* C6: on every Feature, AppendFeatureValues(A) then AppendFeatureValues(B),
\* A and B of one type, leaves the same kind and the same stored sequence as
\* one AppendFeatureValues of A followed by B; and an append of the kind
\* already active keeps what was stored and adds the new elements after it, in
\* source order.
C6_AppendAssociative ==
    /\ \A key \in KeysOf(example) : \A a, b \in ExampleSources :
          a.type = b.type =>
              AppendFeatureValues(b, AppendFeatureValues(a, FeatureAt(key, example)))
                  = AppendFeatureValues(Concat(a, b), FeatureAt(key, example))
    /\ ( /\ last.op = "AppendFeatureValues"
         /\ last.pre.feature.kind = last.kind )
       => /\ Target.kind = last.kind
          /\ Storage(last.kind, Target)
                = Storage(last.kind, last.pre.feature) \o ConvertAll(last.src)

\* An AppendFeatureValues of a non-empty source on a Feature that already
\* held values of the same kind.
C6_Witness ==
    /\ last.op = "AppendFeatureValues"
    /\ last.pre.present
    /\ last.pre.feature.kind = last.kind
    /\ Storage(last.kind, last.pre.feature) # <<>>
    /\ last.src.elems # <<>>

\* The Feature a new element of a FeatureList becomes once filled from a
\* source: the source's kind, holding the source's converted values.
Filled(src) ==
    WithStorage(FeatureTrait(src.type),
                [NewFeature EXCEPT !.kind = FeatureTrait(src.type)],
                ConvertAll(src))

\* The calls that write to one existing element of a FeatureList.
ElementWrites ==
    {"AppendElementValues", "SetElementValues", "ClearElementValues",
     "GetElementValuesMutable"}

\* C7: a Feature added to the FeatureList under a key is placed after all the
\* Features added before, which keep their places and their values, and holds
\* exactly the values appended to it; a write to one element leaves the other
\* elements and the length of the list as they were.
C7_FeatureListOrder ==
    /\ last.op = "AddFeatureValues" =>
          /\ last.idx = Len(last.pre_list) + 1
          /\ se.feature_lists[last.key] = Append(last.pre_list, Filled(last.src))
    /\ last.op \in ElementWrites =>
          /\ Len(se.feature_lists[last.key]) = Len(last.pre_list)
          /\ \A i \in 1..Len(last.pre_list) :
                i # last.idx => se.feature_lists[last.key][i] = last.pre_list[i]
    /\ last.op = "AppendElementValues" =>
          /\ se.feature_lists[last.key][last.idx].kind = last.kind
          /\ Storage(last.kind, se.feature_lists[last.key][last.idx])
                = (IF last.pre.feature.kind = last.kind
                   THEN Storage(last.kind, last.pre.feature) ELSE <<>>)
                  \o ConvertAll(last.src)

\* The feature list "images" after {4.0} was appended to a first added Feature
\* and {5.0, 3.0} to a second.
C7_Witness ==
    /\ last.op = "AddFeatureValues"
    /\ last.key = "images"
    /\ last.idx = 2
    /\ last.src.elems = <<5, 3>>
    /\ Len(se.feature_lists["images"]) = 2
    /\ se.feature_lists["images"][1].float_list = <<4>>
    /\ se.feature_lists["images"][2].float_list = <<5, 3>>

\* C8: a read-only GetFeatureValues<K> on a Feature holding another kind is a
\* ForeignKindAccess and leaves the Feature (its kind and its values) and the
\* keys of the map as they were.
C8_ForeignKindRead ==
    ( /\ last.op = "GetFeatureValuesConst"
      /\ last.pre.present
      /\ last.pre.feature.kind \in Kinds \ {last.kind} )
    => /\ last.status = "ForeignKindAccess"
       /\ Target = last.pre.feature
       /\ KeysOf(Proto(last.target)) = last.pre.keys

\* A read of one kind on a Feature holding values of another.
C8_Witness ==
    /\ last.op = "GetFeatureValuesConst"
    /\ last.pre.present
    /\ last.pre.feature.kind \in Kinds \ {last.kind}
    /\ Storage(last.pre.feature.kind, last.pre.feature) # <<>>
    /\ last.status = "ForeignKindAccess"

\* Every Feature of the Example, of the context and of the feature lists.
AllFeatures ==
    {example.features.feature[k] : k \in Keys(example.features)}
    \cup {se.context.feature[k] : k \in Keys(se.context)}
    \cup UNION {{se.feature_lists[k][i] : i \in 1..Len(se.feature_lists[k])} :
                  k \in DOMAIN se.feature_lists}

\* At most one repeated field of the Feature holds values, and it is the one
\* the Feature's kind names.
Exclusive(f) ==
    /\ Cardinality({k \in Kinds : Storage(k, f) # <<>>}) <= 1
    /\ \A k \in Kinds : Storage(k, f) # <<>> => f.kind = k

\* C9: in every reachable state every Feature, in a feature map or in a
\* feature list, has at most one of its three repeated fields non-empty, and a
\* non-empty one is the one its kind names.
C9_OneofExclusive == \A f \in AllFeatures : Exclusive(f)

\* A write of floating-point values to an element of a feature list that held
\* int64 values, beside a context Feature that holds values.
C9_Witness ==
    /\ last.op \in {"AppendElementValues", "SetElementValues"}
    /\ last.pre.feature.kind = "int64"
    /\ last.pre.feature.int64_list # <<>>
    /\ last.kind = "float"
    /\ se.feature_lists[last.key][last.idx].float_list # <<>>
    /\ \E k \in Keys(se.context) : se.context.feature[k].int64_list # <<>>

\* C10: ClearFeatureValues<K> on a Feature of kind K leaves it holding an
\* empty K list; on a Feature of another kind it changes neither the kind nor
\* that kind's values.
C10_ClearOnlyItsKind ==
    last.op = "ClearFeatureValues" =>
        /\ last.pre.feature.kind = last.kind =>
              /\ Target.kind = last.kind
              /\ Storage(last.kind, Target) = <<>>
        /\ last.pre.feature.kind \in Kinds \ {last.kind} =>
              /\ Target.kind = last.pre.feature.kind
              /\ Storage(Target.kind, Target)
                    = Storage(last.pre.feature.kind, last.pre.feature)
        /\ KeysOf(Proto(last.target)) = last.pre.keys

\* A ClearFeatureValues of one kind on a Feature holding values of another.
C10_Witness ==
    /\ last.op = "ClearFeatureValues"
    /\ last.pre.feature.kind \in Kinds \ {last.kind}
    /\ Storage(last.pre.feature.kind, last.pre.feature) # <<>>
    /\ Target = last.pre.feature

\* The proto a call names, in a given Example and SequenceExample.
ProtoIn(target, e, s) == IF target = "Example" THEN e ELSE s.context

\* The existence queries.
ExistenceCalls == {"HasFeature", "HasFeatureKind", "HasFeatureList"}

\* C11: HasFeature, HasFeature<K> and HasFeatureList leave the record as it
\* was: a query for an absent key creates nothing, so the read-only GetFeature
\* or GetFeatureList on that key still fails, and a query with a kind other
\* than the stored one leaves the Feature's kind as it was.
C11_ExistencePure ==
    [][last'.op \in ExistenceCalls =>
          /\ example' = example
          /\ se' = se
          /\ last'.op \in {"HasFeature", "HasFeatureKind"} =>
                /\ last'.found => last'.pre.present
                /\ ~ last'.pre.present =>
                      GetFeatureConst(last'.key, ProtoIn(last'.target, example', se')).status
                          = "LookupError"
                /\ last'.pre.present =>
                      FeatureAt(last'.key, ProtoIn(last'.target, example', se')).kind
                          = last'.pre.feature.kind
          /\ last'.op = "HasFeatureList" =>
                /\ last'.found = (last'.key \in last'.pre.keys)
                /\ ~ last'.found =>
                      GetFeatureListConst(last'.key, se').status = "LookupError"
      ]_vars

\* HasFeature<K> asked, in a SequenceExample whose feature list does not
\* exist, about a context key whose Feature holds values of another kind.
C11_Witness ==
    /\ last.op = "HasFeatureKind"
    /\ last.target = "context"
    /\ last.pre.present
    /\ last.pre.feature.kind \in Kinds \ {last.kind}
    /\ Storage(last.pre.feature.kind, last.pre.feature) # <<>>
    /\ Target = last.pre.feature
    /\ ~ last.found
    /\ ~ HasFeatureList("images", se)

\* The calls that write to the feature list under a key.
FeatureListWrites == {"GetFeatureListMutable", "AddFeatureValues"} \cup ElementWrites

\* C12: a key-based mutable call on key k (mutable GetFeature, mutable
\* GetFeatureValues, AppendFeatureValues, SetFeatureValues) leaves, for every
\* other key, the presence, the kind and the values of its Feature as they
\* were, and leaves every feature list and the other record as they were; a
\* write to the feature list under one key leaves the context and the feature
\* lists under all other keys as they were.
C12_KeyIsolation ==
    [][/\ last'.op \in MutableKeyCalls =>
            LET before == ProtoIn(last'.target, example, se)
                after == ProtoIn(last'.target, example', se')
            IN  /\ \A k \in (KeysOf(before) \cup KeysOf(after)) \ {last'.key} :
                      /\ k \in KeysOf(before)
                      /\ k \in KeysOf(after)
                      /\ FeatureAt(k, after) = FeatureAt(k, before)
                /\ se'.feature_lists = se.feature_lists
                /\ last'.target = "context" => example' = example
                /\ last'.target = "Example" => se' = se
       /\ last'.op \in FeatureListWrites =>
            /\ se'.context = se.context
            /\ example' = example
            /\ \A k \in (DOMAIN se.feature_lists \cup DOMAIN se'.feature_lists)
                            \ {last'.key} :
                  /\ k \in DOMAIN se.feature_lists
                  /\ k \in DOMAIN se'.feature_lists
                  /\ se'.feature_lists[k] = se.feature_lists[k]
      ]_vars

\* A SetFeatureValues that switched the kind of the context Feature "tag"
\* while the Feature "id" and both feature lists held values.
C12_Witness ==
    /\ last.op = "SetFeatureValues"
    /\ last.target = "context"
    /\ last.key = "tag"
    /\ last.pre.present
    /\ last.pre.feature.kind = "float"
    /\ Target.int64_list = <<42>>
    /\ "id" \in Keys(se.context)
    /\ se.context.feature["id"].int64_list = <<42, 42>>
    /\ DOMAIN se.feature_lists = {"images", "labels"}
    /\ Len(se.feature_lists["images"]) = 2
    /\ Len(se.feature_lists["labels"]) = 1

====
